---- MODULE Spec2Model ----
(***************************************************************************)
(* The multipole addressing layer of SONG's second-order perturbation      *)
(* module (include/perturbations2_macros.h) and the configuration parser's *)
(* interface (include/parser.h).                                           *)
(*                                                                         *)
(* Every macro of the header is an operator of the same name.  A macro     *)
(* that reads an array yields an evaluation record                         *)
(*     [kind |-> "zero" | "entry" | "undefined", slot, val]                *)
(* "zero": the macro's guard chose the literal 0 and no array was touched; *)
(* "entry": the index table and the buffer were read within their bounds;  *)
(* "undefined": an array was subscripted outside its bounds, which in C is *)
(* undefined behaviour: the action that performs the read then picks any   *)
(* value, or a segmentation fault.                                         *)
(***************************************************************************)
EXTENDS Integers, Sequences, FiniteSets, TLC

\* ---------------------------------------------------------------- bounds
\* Largest truncation order l_max a run is configured with.
LMaxBound == 2
\* Buffer entries take the values 0..MaxVal.
MaxVal == 2
\* Assignments through the unchecked write macros in one evaluation.
MaxWrites == 1
\* Wavenumber indices of the triangle (k1,k2,k3) range over 0..KMax.
KMax == 1
\* Diagnostic records the output stream holds at most.
MaxOut == 2

\* ------------------------------------------------------- program constants
\* "we retain only the n=0,1,2 beta-moments for baryons and cold dark matter"
n_max == 2
\* "with l_max set to 2" for the massive hierarchy
l_max_massive == 2

VARIABLES
  has_polarization2,  \* ppt2->has_polarization2
  l_max_g,            \* ppw2->pv->l_max_g
  l_max_pol_g,        \* ppw2->pv->l_max_pol_g
  l_max_ur,           \* ppw2->pv->l_max_ur
  y,                  \* the state buffer read by I, E, B, N, b, cdm
  dy,                 \* the derivative buffer written through dI ... dcdm
  pvec_quadsources,   \* ppw2->pvec_quadsources, the general quadratic buffer
  pvec_quadcollision, \* ppw2->pvec_quadcollision, the collision-only buffer
  nwrites,            \* assignments made so far in this evaluation
  index_k1,           \* ppw2->index_k1, the active triangle configuration
  index_k2,           \* ppw2->index_k2
  index_k3,           \* ppw2->index_k3
  rotation_1,         \* ppw2->rotation_1
  rotation_1_minus,   \* ppw2->rotation_1_minus
  rotation_2,         \* ppw2->rotation_2
  rotation_2_minus,   \* ppw2->rotation_2_minus
  product,            \* ppw2->c_minus_product_12 ... ppw2->k_zero_product_22
  built,              \* history: the triangle the caches were last built for
  index_k1_debug,     \* ppt2->index_k1_debug
  index_k2_debug,     \* ppt2->index_k2_debug
  index_k3_debug,     \* ppt2->index_k3_debug
  out,                \* records written to the diagnostic stream
  pfc,                \* struct file_content: the entries of the input file
  consulted,          \* history: the names a typed lookup has found
  override,           \* history: the value last overlaid on each name
  found,              \* the *found result of the last parser call
  op,                 \* the macro or function evaluated last, its arguments
  ref,                \* the evaluation record of that macro
  res,                \* the value the evaluation produced
  fault               \* "none", or "segv" once an undefined access crashed

cfgVars == <<has_polarization2, l_max_g, l_max_pol_g, l_max_ur>>
bufVars == <<y, dy, pvec_quadsources, pvec_quadcollision, nwrites>>
kVars == <<index_k1, index_k2, index_k3>>
cacheVars ==
  <<rotation_1, rotation_1_minus, rotation_2, rotation_2_minus, product, built>>
dbgVars == <<index_k1_debug, index_k2_debug, index_k3_debug, out>>
parserVars == <<pfc, consulted, override, found>>
obsVars == <<op, ref, res, fault>>
vars == <<cfgVars, bufVars, kVars, cacheVars, dbgVars, parserVars, obsVars>>

abs(x) == IF x < 0 THEN -x ELSE x
Max(a, c) == IF a > c THEN a ELSE c

\* ------------------------------------------------------ Hierarchy Index Table
\* Largest l and |m| the tables are built for.
largest_l == Max(Max(l_max_g, l_max_pol_g), Max(l_max_ur, l_max_massive))

\* ppr2->index_m: position of the azimuthal number m in a row of the table;
\* the orders of one l are laid out 0, 1, -1, 2, -2, ...
index_m == [m \in (-largest_l)..largest_l |-> IF m > 0 THEN 2*m - 1 ELSE -2*m]

\* ppt2->lm_array: row l holds the offsets of its 2l+1 orders, rows follow
\* each other without gaps.
lm_array == [l \in 0..largest_l |-> [im \in 0..(2*l) |-> l*l + im]]

\* Number of (l,m) multipoles of a hierarchy truncated at lmax.
Count(lmax) == (lmax + 1) * (lmax + 1)

\* ppt2->nlm_array: one (l,m) block of l_max = 2 per radial order n = 0,1,2.
nlm_array == [n \in 0..n_max |-> [l \in 0..l_max_massive |->
                [im \in 0..(2*l) |-> n * Count(l_max_massive) + l*l + im]]]

\* Marks a subscript outside the bounds of the array it is applied to.
OutOfBounds == -1

\* #define lm(l,m) ppt2->lm_array[l][ppr2->index_m[m]]
lm_abs(l, m) ==
  IF /\ l \in DOMAIN lm_array
     /\ abs(m) \in DOMAIN index_m
     /\ index_m[abs(m)] \in DOMAIN lm_array[l]
  THEN lm_array[l][index_m[abs(m)]]
  ELSE OutOfBounds

lm(l, m) ==
  IF /\ l \in DOMAIN lm_array
     /\ m \in DOMAIN index_m
     /\ index_m[m] \in DOMAIN lm_array[l]
  THEN lm_array[l][index_m[m]]
  ELSE OutOfBounds

\* #define nlm(n,l,m) ppt2->nlm_array[n][l][ppr2->index_m[m]]
nlm(n, l, m) ==
  IF /\ n \in DOMAIN nlm_array
     /\ l \in DOMAIN nlm_array[n]
     /\ m \in DOMAIN index_m
     /\ index_m[m] \in DOMAIN nlm_array[n][l]
  THEN nlm_array[n][l][index_m[m]]
  ELSE OutOfBounds

\* ------------------------------------------------------------- buffer layout
index_pt2_monopole_g == 0
index_pt2_monopole_E == index_pt2_monopole_g + Count(l_max_g)
index_pt2_monopole_B == index_pt2_monopole_E + Count(l_max_pol_g)
index_pt2_monopole_ur == index_pt2_monopole_B + Count(l_max_pol_g)
index_pt2_monopole_b == index_pt2_monopole_ur + Count(l_max_ur)
index_pt2_monopole_cdm ==
  index_pt2_monopole_b + (n_max + 1) * Count(l_max_massive)
pt2_size == index_pt2_monopole_cdm + (n_max + 1) * Count(l_max_massive)

\* ppw2->index_qs2_monopole_*: the same layout for both quadratic buffers.
index_qs2_monopole_g == 0
index_qs2_monopole_E == index_qs2_monopole_g + Count(l_max_g)
index_qs2_monopole_B == index_qs2_monopole_E + Count(l_max_pol_g)
index_qs2_monopole_ur == index_qs2_monopole_B + Count(l_max_pol_g)
index_qs2_monopole_b == index_qs2_monopole_ur + Count(l_max_ur)
index_qs2_monopole_cdm ==
  index_qs2_monopole_b + (n_max + 1) * Count(l_max_massive)
qs2_size == index_qs2_monopole_cdm + (n_max + 1) * Count(l_max_massive)

\* ------------------------------------------------------- evaluation records
Zero == [kind |-> "zero", tab |-> "none", slot |-> OutOfBounds, val |-> 0]
Undefined(tab) ==
  [kind |-> "undefined", tab |-> tab, slot |-> OutOfBounds, val |-> 0]

\* buf[base + off], where buf is the array named tab and off is the offset a
\* table lookup produced.
At(tab, buf, base, off) ==
  IF off = OutOfBounds \/ (base + off) \notin DOMAIN buf
  THEN Undefined(tab)
  ELSE [kind |-> "entry", tab |-> tab, slot |-> base + off,
        val |-> buf[base + off]]

\* ------------------------------------------------ Bounded Multipole Accessor
I(l, m) ==
  IF (abs(m) > l) \/ (l < 0) \/ (l > l_max_g)
  THEN Zero
  ELSE At("y", y, index_pt2_monopole_g, lm(l, m))

dI_bounded(l, m) ==
  IF (abs(m) > l) \/ (l < 0) \/ (l > l_max_g)
  THEN Zero
  ELSE At("dy", dy, index_pt2_monopole_g, lm(l, m))

dI(l, m) == At("dy", dy, index_pt2_monopole_g, lm(l, m))

E(l, m) ==
  IF (has_polarization2 = FALSE) \/ (abs(m) > l) \/ (l < 0) \/ (l > l_max_pol_g)
  THEN Zero
  ELSE At("y", y, index_pt2_monopole_E, lm(l, m))

dE(l, m) == At("dy", dy, index_pt2_monopole_E, lm(l, m))

B(l, m) ==
  IF (has_polarization2 = FALSE) \/ (abs(m) > l) \/ (l < 0) \/ (l > l_max_pol_g)
  THEN Zero
  ELSE At("y", y, index_pt2_monopole_B, lm(l, m))

dB(l, m) == At("dy", dy, index_pt2_monopole_B, lm(l, m))

N(l, m) ==
  IF (abs(m) > l) \/ (l > l_max_ur)
  THEN Zero
  ELSE At("y", y, index_pt2_monopole_ur, lm(l, m))

dN(l, m) == At("dy", dy, index_pt2_monopole_ur, lm(l, m))

b(n, l, m) ==
  IF (abs(m) > l) \/ (l < 0)
  THEN Zero
  ELSE At("y", y, index_pt2_monopole_b, nlm(n, l, m))

db(n, l, m) == At("dy", dy, index_pt2_monopole_b, nlm(n, l, m))

cdm(n, l, m) ==
  IF (abs(m) > l) \/ (l < 0)
  THEN Zero
  ELSE At("y", y, index_pt2_monopole_cdm, nlm(n, l, m))

dcdm(n, l, m) == At("dy", dy, index_pt2_monopole_cdm, nlm(n, l, m))

\* ------------------------------------------------ Quadratic Source Buffers
dI_qs2_bounded(l, m) ==
  IF (abs(m) > l) \/ (l < 0) \/ (l > l_max_g)
  THEN Zero
  ELSE At("pvec_quadsources", pvec_quadsources, index_qs2_monopole_g,
          lm(l, m))

dI_qs2(l, m) ==
  At("pvec_quadsources", pvec_quadsources, index_qs2_monopole_g, lm(l, m))
dE_qs2(l, m) ==
  At("pvec_quadsources", pvec_quadsources, index_qs2_monopole_E, lm(l, m))
dB_qs2(l, m) ==
  At("pvec_quadsources", pvec_quadsources, index_qs2_monopole_B, lm(l, m))
db_qs2(n, l, m) ==
  At("pvec_quadsources", pvec_quadsources, index_qs2_monopole_b, nlm(n, l, m))
dcdm_qs2(n, l, m) ==
  At("pvec_quadsources", pvec_quadsources, index_qs2_monopole_cdm,
     nlm(n, l, m))
dN_qs2(l, m) ==
  At("pvec_quadsources", pvec_quadsources, index_qs2_monopole_ur, lm(l, m))

dI_qc2_general(l, m) ==
  At("pvec_quadsources", pvec_quadsources, index_qs2_monopole_g, lm(l, m))

dI_qc2(l, m) ==
  At("pvec_quadcollision", pvec_quadcollision, index_qs2_monopole_g, lm(l, m))
dE_qc2(l, m) ==
  At("pvec_quadcollision", pvec_quadcollision, index_qs2_monopole_E, lm(l, m))
dB_qc2(l, m) ==
  At("pvec_quadcollision", pvec_quadcollision, index_qs2_monopole_B, lm(l, m))
db_qc2(n, l, m) ==
  At("pvec_quadcollision", pvec_quadcollision, index_qs2_monopole_b,
     nlm(n, l, m))

\* ---------------------------------------------------- Frame Rotation Cache
\* Largest l of the first-order multipoles that enter the quadratic sources.
largest_l_quad == largest_l

\* ppt2->lm_array_quad: the offsets of the orders 0 <= m <= l, row after row.
lm_array_quad ==
  [l \in 0..largest_l_quad |-> [m \in 0..l |-> (l * (l + 1)) \div 2 + m]]
quad_size == ((largest_l_quad + 1) * (largest_l_quad + 2)) \div 2

\* #define lm_quad(l,m) ppt2->lm_array_quad[l][m]
lm_quad(l, m) ==
  IF l \in DOMAIN lm_array_quad /\ m \in DOMAIN lm_array_quad[l]
  THEN lm_array_quad[l][m]
  ELSE OutOfBounds

rot_1_unmirrored(l, m) ==
  IF (l < 0) \/ (abs(m) > l)
  THEN Zero
  ELSE At("rotation_1", rotation_1, 0, lm_quad(l, abs(m)))

rot_1(l, m) ==
  IF (l < 0) \/ (abs(m) > l)
  THEN Zero
  ELSE IF m < 0
       THEN At("rotation_1_minus", rotation_1_minus, 0, lm_quad(l, abs(m)))
       ELSE At("rotation_1", rotation_1, 0, lm_quad(l, m))

rot_2_leg1(l, m) ==
  IF (l < 0) \/ (abs(m) > l)
  THEN Zero
  ELSE IF m < 0
       THEN At("rotation_2_minus", rotation_1_minus, 0, lm_quad(l, abs(m)))
       ELSE At("rotation_2", rotation_1, 0, lm_quad(l, m))

rot_2(l, m) ==
  IF (l < 0) \/ (abs(m) > l)
  THEN Zero
  ELSE IF m < 0
       THEN At("rotation_2_minus", rotation_2_minus, 0, lm_quad(l, abs(m)))
       ELSE At("rotation_2", rotation_2, 0, lm_quad(l, m))

\* ------------------------------------------------------------ Product Cache
\* The arrays of summed coupling coefficients, in the order of the header.
ProductArrays == <<
  "c_minus_product_12", "c_minus_product_21", "c_plus_product_12",
  "c_plus_product_21", "c_minus_product_11", "c_minus_product_22",
  "c_plus_product_11", "c_plus_product_22", "r_minus_product_12",
  "r_minus_product_21", "r_plus_product_12", "r_plus_product_21",
  "d_minus_product_12", "d_minus_product_21", "d_plus_product_12",
  "d_plus_product_21", "d_minus_product_11", "d_minus_product_22",
  "d_plus_product_11", "d_plus_product_22", "d_zero_product_12",
  "d_zero_product_21", "d_zero_product_11", "d_zero_product_22",
  "k_minus_product_12", "k_minus_product_21", "k_plus_product_12",
  "k_plus_product_21", "k_minus_product_11", "k_minus_product_22",
  "k_plus_product_11", "k_plus_product_22", "k_zero_product_12",
  "k_zero_product_21", "k_zero_product_11", "k_zero_product_22" >>

\* ppw2->NAME[lm(l,m)] for one of the product arrays.
ProductAt(array, l, m) == At(array, product[array], 0, lm(l, m))

c_minus_12(l, m) == ProductAt("c_minus_product_12", l, m)
c_minus_21(l, m) == ProductAt("c_minus_product_21", l, m)
c_plus_12(l, m) == ProductAt("c_plus_product_12", l, m)
c_plus_21(l, m) == ProductAt("c_plus_product_21", l, m)
c_minus_11(l, m) == ProductAt("c_minus_product_11", l, m)
c_minus_22(l, m) == ProductAt("c_minus_product_22", l, m)
c_plus_11(l, m) == ProductAt("c_plus_product_11", l, m)
c_plus_22(l, m) == ProductAt("c_plus_product_22", l, m)
r_minus_12(l, m) == ProductAt("r_minus_product_12", l, m)
r_minus_21(l, m) == ProductAt("r_minus_product_21", l, m)
r_plus_12(l, m) == ProductAt("r_plus_product_12", l, m)
r_plus_21(l, m) == ProductAt("r_plus_product_21", l, m)
d_minus_12(l, m) == ProductAt("d_minus_product_12", l, m)
d_minus_21(l, m) == ProductAt("d_minus_product_21", l, m)
d_plus_12(l, m) == ProductAt("d_plus_product_12", l, m)
d_plus_21(l, m) == ProductAt("d_plus_product_21", l, m)
d_minus_11(l, m) == ProductAt("d_minus_product_11", l, m)
d_minus_22(l, m) == ProductAt("d_minus_product_22", l, m)
d_plus_11(l, m) == ProductAt("d_plus_product_11", l, m)
d_plus_22(l, m) == ProductAt("d_plus_product_22", l, m)
d_zero_12(l, m) == ProductAt("d_zero_product_12", l, m)
d_zero_21(l, m) == ProductAt("d_zero_product_21", l, m)
d_zero_11(l, m) == ProductAt("d_zero_product_11", l, m)
d_zero_22(l, m) == ProductAt("d_zero_product_22", l, m)
k_minus_12(l, m) == ProductAt("k_minus_product_12", l, m)
k_minus_21(l, m) == ProductAt("k_minus_product_21", l, m)
k_plus_12(l, m) == ProductAt("k_plus_product_12", l, m)
k_plus_21(l, m) == ProductAt("k_plus_product_21", l, m)
k_minus_11(l, m) == ProductAt("k_minus_product_11", l, m)
k_minus_22(l, m) == ProductAt("k_minus_product_22", l, m)
k_plus_11(l, m) == ProductAt("k_plus_product_11", l, m)
k_plus_22(l, m) == ProductAt("k_plus_product_22", l, m)
k_zero_12(l, m) == ProductAt("k_zero_product_12", l, m)
k_zero_21(l, m) == ProductAt("k_zero_product_21", l, m)
k_zero_11(l, m) == ProductAt("k_zero_product_11", l, m)
k_zero_22(l, m) == ProductAt("k_zero_product_22", l, m)

\* The macro that reads the given product array.
ProductMacro(array, l, m) ==
  CASE array = "c_minus_product_12" -> c_minus_12(l, m)
    [] array = "c_minus_product_21" -> c_minus_21(l, m)
    [] array = "c_plus_product_12" -> c_plus_12(l, m)
    [] array = "c_plus_product_21" -> c_plus_21(l, m)
    [] array = "c_minus_product_11" -> c_minus_11(l, m)
    [] array = "c_minus_product_22" -> c_minus_22(l, m)
    [] array = "c_plus_product_11" -> c_plus_11(l, m)
    [] array = "c_plus_product_22" -> c_plus_22(l, m)
    [] array = "r_minus_product_12" -> r_minus_12(l, m)
    [] array = "r_minus_product_21" -> r_minus_21(l, m)
    [] array = "r_plus_product_12" -> r_plus_12(l, m)
    [] array = "r_plus_product_21" -> r_plus_21(l, m)
    [] array = "d_minus_product_12" -> d_minus_12(l, m)
    [] array = "d_minus_product_21" -> d_minus_21(l, m)
    [] array = "d_plus_product_12" -> d_plus_12(l, m)
    [] array = "d_plus_product_21" -> d_plus_21(l, m)
    [] array = "d_minus_product_11" -> d_minus_11(l, m)
    [] array = "d_minus_product_22" -> d_minus_22(l, m)
    [] array = "d_plus_product_11" -> d_plus_11(l, m)
    [] array = "d_plus_product_22" -> d_plus_22(l, m)
    [] array = "d_zero_product_12" -> d_zero_12(l, m)
    [] array = "d_zero_product_21" -> d_zero_21(l, m)
    [] array = "d_zero_product_11" -> d_zero_11(l, m)
    [] array = "d_zero_product_22" -> d_zero_22(l, m)
    [] array = "k_minus_product_12" -> k_minus_12(l, m)
    [] array = "k_minus_product_21" -> k_minus_21(l, m)
    [] array = "k_plus_product_12" -> k_plus_12(l, m)
    [] array = "k_plus_product_21" -> k_plus_21(l, m)
    [] array = "k_minus_product_11" -> k_minus_11(l, m)
    [] array = "k_minus_product_22" -> k_minus_22(l, m)
    [] array = "k_plus_product_11" -> k_plus_11(l, m)
    [] array = "k_plus_product_22" -> k_plus_22(l, m)
    [] array = "k_zero_product_12" -> k_zero_12(l, m)
    [] array = "k_zero_product_21" -> k_zero_21(l, m)
    [] array = "k_zero_product_11" -> k_zero_11(l, m)
    [] array = "k_zero_product_22" -> k_zero_22(l, m)

\* -------------------------------------------------------------------- inputs
\* Arguments of the massless macros: one step beyond every truncation order.
LRange == (-1)..(LMaxBound + 1)
MRange == (-(LMaxBound + 1))..(LMaxBound + 1)
\* Arguments of the massive macros: one step beyond n = 0,1,2 and l_max = 2.
NRange == (-1)..(n_max + 1)
LRangeMassive == (-1)..(l_max_massive + 1)
MRangeMassive == (-(l_max_massive + 1))..(l_max_massive + 1)
Values == 0..MaxVal

\* A buffer of the given size whose entry i is (i + a) mod (MaxVal + 1).
Content(size, a) == [i \in 0..(size - 1) |-> (i + a) % (MaxVal + 1)]
\* An array that is not allocated.
NoArray == Content(0, 0)

Idle == [name |-> "none", n |-> 0, l |-> 0, m |-> 0, v |-> 0, key |-> ""]
Call(name, n, l, m, v) ==
  [name |-> name, n |-> n, l |-> l, m |-> m, v |-> v, key |-> ""]

Massless == {"I", "E", "B", "N"}
Massive == {"b", "cdm"}

\* The family a macro belongs to: dE_qs2, dE_qc2, dE and E are all "E".
Family(name) ==
  CASE name \in {"I", "dI", "dI_qs2", "dI_qc2"} -> "I"
    [] name \in {"E", "dE", "dE_qs2", "dE_qc2"} -> "E"
    [] name \in {"B", "dB", "dB_qs2", "dB_qc2"} -> "B"
    [] name \in {"N", "dN", "dN_qs2"} -> "N"
    [] name \in {"b", "db", "db_qs2", "db_qc2"} -> "b"
    [] name \in {"cdm", "dcdm", "dcdm_qs2"} -> "cdm"
    [] OTHER -> "none"

\* The truncation order of a family.
LMaxOf(fam) ==
  CASE fam = "I" -> l_max_g
    [] fam \in {"E", "B"} -> l_max_pol_g
    [] fam = "N" -> l_max_ur
    [] OTHER -> l_max_massive

\* (n,l,m) is a multipole of the family's hierarchy.
ValidIndex(fam, n, l, m) ==
  /\ 0 <= l /\ l <= LMaxOf(fam) /\ abs(m) <= l
  /\ fam \in Massive => (0 <= n /\ n <= n_max)

\* ------------------------------------------------------------------- actions
\* The outcome of evaluating a read macro whose evaluation record is r: an
\* undefined access yields any value, or a segmentation fault.
Read(name, n, l, m, r) ==
  /\ fault = "none"
  /\ op = Idle
  /\ op' = Call(name, n, l, m, 0)
  /\ ref' = r
  /\ IF r.kind = "undefined"
     THEN \/ (res' \in Values /\ fault' = "none")
          \/ (res' = 0 /\ fault' = "segv")
     ELSE res' = r.val /\ fault' = "none"

others == <<kVars, cacheVars, dbgVars, parserVars>>

ReadI(l, m) ==
  Read("I", 0, l, m, I(l, m)) /\ UNCHANGED <<cfgVars, bufVars, others>>
ReadE(l, m) ==
  Read("E", 0, l, m, E(l, m)) /\ UNCHANGED <<cfgVars, bufVars, others>>
ReadB(l, m) ==
  Read("B", 0, l, m, B(l, m)) /\ UNCHANGED <<cfgVars, bufVars, others>>
ReadN(l, m) ==
  Read("N", 0, l, m, N(l, m)) /\ UNCHANGED <<cfgVars, bufVars, others>>
Readb(n, l, m) ==
  Read("b", n, l, m, b(n, l, m)) /\ UNCHANGED <<cfgVars, bufVars, others>>
Readcdm(n, l, m) ==
  Read("cdm", n, l, m, cdm(n, l, m)) /\ UNCHANGED <<cfgVars, bufVars, others>>

\* A use of the lookup macros on their own: the value is the table entry.
Looked(tab, off) ==
  IF off = OutOfBounds
  THEN Undefined(tab)
  ELSE [kind |-> "entry", tab |-> tab, slot |-> off, val |-> off]

Lookuplm(l, m) ==
  /\ Read("lm", 0, l, m, Looked("lm_array", lm(l, m)))
  /\ UNCHANGED <<cfgVars, bufVars, others>>
Lookupnlm(n, l, m) ==
  /\ Read("nlm", n, l, m, Looked("nlm_array", nlm(n, l, m)))
  /\ UNCHANGED <<cfgVars, bufVars, others>>

\* The writable buffer an evaluation record refers to.
Buf(tab) ==
  CASE tab = "dy" -> dy
    [] tab = "pvec_quadsources" -> pvec_quadsources
    [] tab = "pvec_quadcollision" -> pvec_quadcollision
    [] OTHER -> NoArray

\* The buffers an assignment buf[base + off] = v can leave behind when off is
\* the result of an undefined table read: the store lands outside buf, or on
\* a slot a stray offset selects.
StrayStore(buf, base, v) ==
  {buf} \cup {[buf EXCEPT ![base + g] = v] :
                g \in {h \in 0..1 : (base + h) \in DOMAIN buf}}

\* The assignment  macro = v,  where r is the evaluation record of the macro
\* (an lvalue) and base its monopole index.  No check precedes the store.
Assign(name, n, l, m, v, r, base) ==
  /\ fault = "none"
  /\ op = Idle
  /\ nwrites < MaxWrites
  /\ nwrites' = nwrites + 1
  /\ op' = Call(name, n, l, m, v)
  /\ ref' = r
  /\ res' = v
  /\ \E nb \in (IF r.kind = "entry"
                THEN {[Buf(r.tab) EXCEPT ![r.slot] = v]}
                ELSE StrayStore(Buf(r.tab), base, v)) :
       /\ IF r.kind = "entry" \/ nb # Buf(r.tab)
          THEN fault' = "none"
          ELSE fault' \in {"none", "segv"}
       /\ dy' = IF r.tab = "dy" THEN nb ELSE dy
       /\ pvec_quadsources' =
            IF r.tab = "pvec_quadsources" THEN nb ELSE pvec_quadsources
       /\ pvec_quadcollision' =
            IF r.tab = "pvec_quadcollision" THEN nb ELSE pvec_quadcollision
  /\ UNCHANGED <<cfgVars, y, others>>

\* dI(l,m) = v; and the other derivative assignments.
WritedI(l, m, v) == Assign("dI", 0, l, m, v, dI(l, m), index_pt2_monopole_g)
WritedE(l, m, v) == Assign("dE", 0, l, m, v, dE(l, m), index_pt2_monopole_E)
WritedB(l, m, v) == Assign("dB", 0, l, m, v, dB(l, m), index_pt2_monopole_B)
WritedN(l, m, v) == Assign("dN", 0, l, m, v, dN(l, m), index_pt2_monopole_ur)
Writedb(n, l, m, v) ==
  Assign("db", n, l, m, v, db(n, l, m), index_pt2_monopole_b)
Writedcdm(n, l, m, v) ==
  Assign("dcdm", n, l, m, v, dcdm(n, l, m), index_pt2_monopole_cdm)

\* Reads of the quadratic buffers.
ReaddI_qs2(l, m) ==
  Read("dI_qs2", 0, l, m, dI_qs2(l, m)) /\ UNCHANGED <<cfgVars, bufVars, others>>
ReaddE_qs2(l, m) ==
  Read("dE_qs2", 0, l, m, dE_qs2(l, m)) /\ UNCHANGED <<cfgVars, bufVars, others>>
ReaddB_qs2(l, m) ==
  Read("dB_qs2", 0, l, m, dB_qs2(l, m)) /\ UNCHANGED <<cfgVars, bufVars, others>>
Readdb_qs2(n, l, m) ==
  Read("db_qs2", n, l, m, db_qs2(n, l, m))
    /\ UNCHANGED <<cfgVars, bufVars, others>>
Readdcdm_qs2(n, l, m) ==
  Read("dcdm_qs2", n, l, m, dcdm_qs2(n, l, m))
    /\ UNCHANGED <<cfgVars, bufVars, others>>
ReaddN_qs2(l, m) ==
  Read("dN_qs2", 0, l, m, dN_qs2(l, m)) /\ UNCHANGED <<cfgVars, bufVars, others>>
ReaddI_qc2(l, m) ==
  Read("dI_qc2", 0, l, m, dI_qc2(l, m)) /\ UNCHANGED <<cfgVars, bufVars, others>>
ReaddE_qc2(l, m) ==
  Read("dE_qc2", 0, l, m, dE_qc2(l, m)) /\ UNCHANGED <<cfgVars, bufVars, others>>
ReaddB_qc2(l, m) ==
  Read("dB_qc2", 0, l, m, dB_qc2(l, m)) /\ UNCHANGED <<cfgVars, bufVars, others>>
Readdb_qc2(n, l, m) ==
  Read("db_qc2", n, l, m, db_qc2(n, l, m))
    /\ UNCHANGED <<cfgVars, bufVars, others>>

\* Assignments to the quadratic buffers.
WritedI_qs2(l, m, v) ==
  Assign("dI_qs2", 0, l, m, v, dI_qs2(l, m), index_qs2_monopole_g)
WritedE_qs2(l, m, v) ==
  Assign("dE_qs2", 0, l, m, v, dE_qs2(l, m), index_qs2_monopole_E)
WritedB_qs2(l, m, v) ==
  Assign("dB_qs2", 0, l, m, v, dB_qs2(l, m), index_qs2_monopole_B)
Writedb_qs2(n, l, m, v) ==
  Assign("db_qs2", n, l, m, v, db_qs2(n, l, m), index_qs2_monopole_b)
Writedcdm_qs2(n, l, m, v) ==
  Assign("dcdm_qs2", n, l, m, v, dcdm_qs2(n, l, m), index_qs2_monopole_cdm)
WritedN_qs2(l, m, v) ==
  Assign("dN_qs2", 0, l, m, v, dN_qs2(l, m), index_qs2_monopole_ur)
WritedI_qc2(l, m, v) ==
  Assign("dI_qc2", 0, l, m, v, dI_qc2(l, m), index_qs2_monopole_g)
WritedE_qc2(l, m, v) ==
  Assign("dE_qc2", 0, l, m, v, dE_qc2(l, m), index_qs2_monopole_E)
WritedB_qc2(l, m, v) ==
  Assign("dB_qc2", 0, l, m, v, dB_qc2(l, m), index_qs2_monopole_B)
Writedb_qc2(n, l, m, v) ==
  Assign("db_qc2", n, l, m, v, db_qc2(n, l, m), index_qs2_monopole_b)

\* The equation code has used the value and goes on to its next term.
Continue ==
  /\ fault = "none"
  /\ op # Idle
  /\ op' = Idle /\ ref' = Zero /\ res' = 0
  /\ UNCHANGED <<cfgVars, bufVars, others, fault>>

\* ------------------------------------------------- triangle and its caches
Triangle == <<index_k1, index_k2, index_k3>>
Triangles == (0..KMax) \X (0..KMax) \X (0..KMax)

\* The outer loops move on to another triangle configuration.
SetTriangle(k1, k2, k3) ==
  /\ fault = "none"
  /\ op = Idle
  /\ <<k1, k2, k3>> # Triangle
  /\ index_k1' = k1 /\ index_k2' = k2 /\ index_k3' = k3
  /\ UNCHANGED <<cfgVars, bufVars, cacheVars, dbgVars, parserVars, obsVars>>

\* The coefficients of a triangle are numbered so that no two entries of any
\* cache, of any triangle, carry the same number.
GeomId(t) == t[1] + (KMax + 1) * (t[2] + (KMax + 1) * t[3])
NGeom == (KMax + 1) * (KMax + 1) * (KMax + 1)
RotationCoeff(leg, mirrored, off, t) ==
  1 + GeomId(t) + NGeom * (2 * (2 * off + (leg - 1)) + mirrored)
ProductCoeff(a, off, t) ==
  1 + GeomId(t) + NGeom * (Len(ProductArrays) * off + (a - 1))
ArrayNames == {ProductArrays[a] : a \in DOMAIN ProductArrays}
ArrayIndex(array) == CHOOSE a \in DOMAIN ProductArrays : ProductArrays[a] = array

\* perturb2_geometrical_corner: builds the rotation tables of both legs and
\* every product array for the active triangle, all of them in one call.
perturb2_geometrical_corner ==
  /\ fault = "none"
  /\ op = Idle
  /\ built # Triangle
  /\ rotation_1' =
       [i \in 0..(quad_size - 1) |-> RotationCoeff(1, 0, i, Triangle)]
  /\ rotation_1_minus' =
       [i \in 0..(quad_size - 1) |-> RotationCoeff(1, 1, i, Triangle)]
  /\ rotation_2' =
       [i \in 0..(quad_size - 1) |-> RotationCoeff(2, 0, i, Triangle)]
  /\ rotation_2_minus' =
       [i \in 0..(quad_size - 1) |-> RotationCoeff(2, 1, i, Triangle)]
  /\ product' =
       [array \in ArrayNames |->
          [i \in 0..(Count(largest_l) - 1) |->
             ProductCoeff(ArrayIndex(array), i, Triangle)]]
  /\ built' = Triangle
  /\ UNCHANGED <<cfgVars, bufVars, kVars, dbgVars, parserVars, obsVars>>

Readrot_1(l, m) ==
  Read("rot_1", 0, l, m, rot_1(l, m)) /\ UNCHANGED <<cfgVars, bufVars, others>>

Readrot_2(l, m) ==
  Read("rot_2", 0, l, m, rot_2(l, m)) /\ UNCHANGED <<cfgVars, bufVars, others>>

\* c_minus_12(l,m) ... k_zero_22(l,m)
ReadProduct(array, l, m) ==
  /\ Read(array, 0, l, m, ProductMacro(array, l, m))
  /\ UNCHANGED <<cfgVars, bufVars, others>>

\* ----------------------------------------------------------- Debug Selector
\* printf_k_debug(args...): fprintf(args) when the active triangle is the one
\* configured for debugging.
printf_k_debug_any ==
  /\ fault = "none"
  /\ op = Idle
  /\ op' = Call("printf_k_debug", 0, 0, 0, 0)
  /\ ref' = Zero
  /\ fault' = fault
  /\ IF \/ (index_k1 = index_k1_debug)
        \/ (index_k2 = index_k2_debug)
        \/ (index_k3 = index_k3_debug)
     THEN out < MaxOut /\ out' = out + 1 /\ res' = 1
     ELSE out' = out /\ res' = 0
  /\ UNCHANGED <<index_k1_debug, index_k2_debug, index_k3_debug>>
  /\ UNCHANGED <<cfgVars, bufVars, kVars, cacheVars, parserVars>>

printf_k_debug ==
  /\ fault = "none"
  /\ op = Idle
  /\ op' = Call("printf_k_debug", 0, 0, 0, 0)
  /\ ref' = Zero
  /\ fault' = fault
  /\ IF /\ (index_k1 = index_k1_debug)
        /\ (index_k2 = index_k2_debug)
        /\ (index_k3 = index_k3_debug)
     THEN out < MaxOut /\ out' = out + 1 /\ res' = 1
     ELSE out' = out /\ res' = 0
  /\ UNCHANGED <<index_k1_debug, index_k2_debug, index_k3_debug>>
  /\ UNCHANGED <<cfgVars, bufVars, kVars, cacheVars, parserVars>>

\* ------------------------------------------------------ configuration file
Names == {"l_max_g", "l_max_pol_g", "has_polarization2"}
Entry(name, value) ==
  [name |-> name, value |-> value, read |-> FALSE, overwritten |-> FALSE]

\* The index of the entry called name, 0 when the file has none.
Find(fc, name) ==
  IF \E i \in DOMAIN fc : fc[i].name = name
  THEN CHOOSE i \in DOMAIN fc :
         fc[i].name = name /\ \A j \in DOMAIN fc : fc[j].name = name => i <= j
  ELSE 0

ParserCall(name, key, v) ==
  [name |-> name, n |-> 0, l |-> 0, m |-> 0, v |-> v, key |-> key]

\* parser_read_int(pfc, name, &value, &found, errmsg)
parser_read_int(name) ==
  /\ fault = "none"
  /\ op = Idle
  /\ op' = ParserCall("parser_read_int", name, 0)
  /\ ref' = Zero
  /\ fault' = fault
  /\ LET i == Find(pfc, name) IN
       IF i = 0
       THEN /\ found' = FALSE /\ res' = 0
            /\ UNCHANGED <<pfc, consulted>>
       ELSE /\ found' = TRUE /\ res' = pfc[i].value
            /\ pfc' = [pfc EXCEPT ![i].read = TRUE]
            /\ consulted' = consulted \cup {name}
  /\ UNCHANGED <<override, cfgVars, bufVars, kVars, cacheVars, dbgVars>>

parser_overwrite_entry_unflagged(name, new_value) ==
  /\ fault = "none"
  /\ op = Idle
  /\ op' = ParserCall("parser_overwrite_entry", name, new_value)
  /\ ref' = Zero
  /\ res' = 0
  /\ fault' = fault
  /\ LET i == Find(pfc, name) IN
       IF i = 0
       THEN /\ found' = FALSE
            /\ UNCHANGED <<pfc, override>>
       ELSE /\ found' = TRUE
            /\ pfc' = [pfc EXCEPT ![i].value = new_value]
            /\ override' = [override EXCEPT ![name] = new_value]
  /\ UNCHANGED <<consulted, cfgVars, bufVars, kVars, cacheVars, dbgVars>>

\* parser_overwrite_entry(pfc, name, new_value, &found, errmsg)
parser_overwrite_entry(name, new_value) ==
  /\ fault = "none"
  /\ op = Idle
  /\ op' = ParserCall("parser_overwrite_entry", name, new_value)
  /\ ref' = Zero
  /\ res' = 0
  /\ fault' = fault
  /\ LET i == Find(pfc, name) IN
       IF i = 0
       THEN /\ found' = FALSE
            /\ UNCHANGED <<pfc, override>>
       ELSE /\ found' = TRUE
            /\ pfc' = [pfc EXCEPT ![i].value = new_value,
                                  ![i].overwritten = TRUE]
            /\ override' = [override EXCEPT ![name] = new_value]
  /\ UNCHANGED <<consulted, cfgVars, bufVars, kVars, cacheVars, dbgVars>>

\* parser_cat(pfc1, pfc2, pfc3, errmsg) with pfc1 the entries read so far and
\* pfc2 one entry of the override file whose name the base file lacks.
parser_cat(name, value) ==
  /\ fault = "none"
  /\ op = Idle
  /\ Find(pfc, name) = 0
  /\ op' = ParserCall("parser_cat", name, value)
  /\ ref' = Zero
  /\ res' = 0
  /\ fault' = fault
  /\ pfc' = pfc \o <<Entry(name, value)>>
  /\ UNCHANGED <<consulted, override, found>>
  /\ UNCHANGED <<cfgVars, bufVars, kVars, cacheVars, dbgVars>>

\* ------------------------------------------------------------ initial states
\* Truncation orders and the polarization flag are frozen at setup.
InitCfg ==
  /\ has_polarization2 \in BOOLEAN
  /\ l_max_g \in 0..LMaxBound
  /\ l_max_pol_g \in 0..LMaxBound
  /\ l_max_ur \in 0..LMaxBound

\* The same truncation order for the three massless hierarchies.
InitCfgUniform ==
  /\ has_polarization2 \in BOOLEAN
  /\ l_max_g \in 0..LMaxBound
  /\ l_max_pol_g = l_max_g
  /\ l_max_ur = l_max_g

InitObs == op = Idle /\ ref = Zero /\ res = 0 /\ fault = "none"

NoBuffers ==
  /\ y = NoArray /\ dy = NoArray
  /\ pvec_quadsources = NoArray /\ pvec_quadcollision = NoArray
  /\ nwrites = 0

NoTriangle == index_k1 = 0 /\ index_k2 = 0 /\ index_k3 = 0

NoCaches ==
  /\ rotation_1 = NoArray /\ rotation_1_minus = NoArray
  /\ rotation_2 = NoArray /\ rotation_2_minus = NoArray
  /\ product = NoArray /\ built = <<>>

NoDebug ==
  /\ index_k1_debug = 0 /\ index_k2_debug = 0 /\ index_k3_debug = 0
  /\ out = 0

NoParser ==
  /\ pfc = <<>> /\ consulted = {} /\ override = <<>> /\ found = FALSE

\* ------------------------------------- Spec: the bounded multipole accessor
Init ==
  /\ InitCfg
  /\ \E a \in 0..1 : y = Content(pt2_size, a)
  /\ dy = NoArray
  /\ pvec_quadsources = NoArray /\ pvec_quadcollision = NoArray
  /\ nwrites = 0
  /\ NoTriangle /\ NoCaches /\ NoDebug /\ NoParser
  /\ InitObs

Next ==
  \/ \E l \in LRange, m \in MRange : ReadI(l, m)
  \/ \E l \in LRange, m \in MRange : ReadE(l, m)
  \/ \E l \in LRange, m \in MRange : ReadB(l, m)
  \/ \E l \in LRange, m \in MRange : ReadN(l, m)
  \/ \E n \in NRange, l \in LRangeMassive, m \in MRangeMassive : Readb(n, l, m)
  \/ \E n \in NRange, l \in LRangeMassive, m \in MRangeMassive :
       Readcdm(n, l, m)
  \/ Continue

Spec == Init /\ [][Next]_vars

\* ------------------------------------------- SpecLookup: the index tables
\* The tables are built from the truncation orders alone.
InitLookup ==
  /\ InitCfg /\ has_polarization2 = TRUE
  /\ y = NoArray /\ dy = NoArray
  /\ pvec_quadsources = NoArray /\ pvec_quadcollision = NoArray
  /\ nwrites = 0
  /\ NoTriangle /\ NoCaches /\ NoDebug /\ NoParser
  /\ InitObs

NextLookup ==
  \/ \E l \in LRange, m \in MRange : Lookuplm(l, m)
  \/ \E n \in NRange, l \in LRangeMassive, m \in MRangeMassive :
       Lookupnlm(n, l, m)
  \/ Continue

SpecLookup == InitLookup /\ [][NextLookup]_vars

\* --------------------------- SpecDeriv: assignments to the derivative buffer
\* The derivative macros do not read the polarization flag.
InitDeriv ==
  /\ InitCfgUniform /\ has_polarization2 = TRUE
  /\ y = NoArray
  /\ dy = Content(pt2_size, 0)
  /\ pvec_quadsources = NoArray /\ pvec_quadcollision = NoArray
  /\ nwrites = 0
  /\ NoTriangle /\ NoCaches /\ NoDebug /\ NoParser
  /\ InitObs

\* The k-th assignment of an evaluation stores the value k.
WValues == {nwrites + 1}

NextDeriv ==
  \/ \E l \in LRange, m \in MRange, v \in WValues : WritedI(l, m, v)
  \/ \E l \in LRange, m \in MRange, v \in WValues : WritedE(l, m, v)
  \/ \E l \in LRange, m \in MRange, v \in WValues : WritedB(l, m, v)
  \/ \E l \in LRange, m \in MRange, v \in WValues : WritedN(l, m, v)
  \/ \E n \in NRange, l \in LRangeMassive, m \in MRangeMassive,
        v \in WValues : Writedb(n, l, m, v)
  \/ \E n \in NRange, l \in LRangeMassive, m \in MRangeMassive,
        v \in WValues : Writedcdm(n, l, m, v)
  \/ Continue

SpecDeriv == InitDeriv /\ [][NextDeriv]_vars

\* ------------------------------ SpecQuadRead: reads of the quadratic buffers
\* The buffers hold what earlier assignments left in them.
InitQuadRead ==
  /\ InitCfgUniform
  /\ y = NoArray /\ dy = NoArray
  /\ \E a \in 0..1 :
       /\ pvec_quadsources = Content(qs2_size, a)
       /\ pvec_quadcollision = Content(qs2_size, a + 1)
  /\ nwrites = 0
  /\ NoTriangle /\ NoCaches /\ NoDebug /\ NoParser
  /\ InitObs

NextQuadRead ==
  \/ \E l \in LRange, m \in MRange : ReaddI_qs2(l, m)
  \/ \E l \in LRange, m \in MRange : ReaddE_qs2(l, m)
  \/ \E l \in LRange, m \in MRange : ReaddB_qs2(l, m)
  \/ \E n \in NRange, l \in LRangeMassive, m \in MRangeMassive :
       Readdb_qs2(n, l, m)
  \/ \E n \in NRange, l \in LRangeMassive, m \in MRangeMassive :
       Readdcdm_qs2(n, l, m)
  \/ \E l \in LRange, m \in MRange : ReaddN_qs2(l, m)
  \/ \E l \in LRange, m \in MRange : ReaddI_qc2(l, m)
  \/ \E l \in LRange, m \in MRange : ReaddE_qc2(l, m)
  \/ \E l \in LRange, m \in MRange : ReaddB_qc2(l, m)
  \/ \E n \in NRange, l \in LRangeMassive, m \in MRangeMassive :
       Readdb_qc2(n, l, m)
  \/ Continue

SpecQuadRead == InitQuadRead /\ [][NextQuadRead]_vars

\* ---------------------- SpecQuadWrite: assignments to the quadratic buffers
\* The buffers hold what the previous evaluation left in them; the equation
\* code assigns the multipoles of each hierarchy.
InitQuadWrite ==
  /\ InitCfgUniform /\ has_polarization2 = TRUE
  /\ y = NoArray /\ dy = NoArray
  /\ pvec_quadsources = Content(qs2_size, 0)
  /\ pvec_quadcollision = Content(qs2_size, 1)
  /\ nwrites = 0
  /\ NoTriangle /\ NoCaches /\ NoDebug /\ NoParser
  /\ InitObs

NextQuadWrite ==
  \/ \E l \in LRange, m \in MRange, v \in WValues :
       ValidIndex("I", 0, l, m) /\ WritedI_qs2(l, m, v)
  \/ \E l \in LRange, m \in MRange, v \in WValues :
       ValidIndex("E", 0, l, m) /\ WritedE_qs2(l, m, v)
  \/ \E l \in LRange, m \in MRange, v \in WValues :
       ValidIndex("B", 0, l, m) /\ WritedB_qs2(l, m, v)
  \/ \E n \in NRange, l \in LRangeMassive, m \in MRangeMassive,
        v \in WValues : ValidIndex("b", n, l, m) /\ Writedb_qs2(n, l, m, v)
  \/ \E n \in NRange, l \in LRangeMassive, m \in MRangeMassive,
        v \in WValues :
       ValidIndex("cdm", n, l, m) /\ Writedcdm_qs2(n, l, m, v)
  \/ \E l \in LRange, m \in MRange, v \in WValues :
       ValidIndex("N", 0, l, m) /\ WritedN_qs2(l, m, v)
  \/ \E l \in LRange, m \in MRange, v \in WValues :
       ValidIndex("I", 0, l, m) /\ WritedI_qc2(l, m, v)
  \/ \E l \in LRange, m \in MRange, v \in WValues :
       ValidIndex("E", 0, l, m) /\ WritedE_qc2(l, m, v)
  \/ \E l \in LRange, m \in MRange, v \in WValues :
       ValidIndex("B", 0, l, m) /\ WritedB_qc2(l, m, v)
  \/ \E n \in NRange, l \in LRangeMassive, m \in MRangeMassive,
        v \in WValues : ValidIndex("b", n, l, m) /\ Writedb_qc2(n, l, m, v)
  \/ Continue

SpecQuadWrite == InitQuadWrite /\ [][NextQuadWrite]_vars

\* ---------------------------- SpecRot: the rotation and the product caches
\* The caches are allocated and hold whatever the allocation left in them.
InitRot ==
  /\ has_polarization2 = TRUE
  /\ l_max_g = l_max_massive /\ l_max_pol_g = l_max_massive
  /\ l_max_ur = l_max_massive
  /\ NoBuffers
  /\ NoTriangle
  /\ \E a \in 0..1 :
       /\ rotation_1 = Content(quad_size, a)
       /\ rotation_1_minus = Content(quad_size, a)
       /\ rotation_2 = Content(quad_size, a)
       /\ rotation_2_minus = Content(quad_size, a)
       /\ product =
            [array \in ArrayNames |-> Content(Count(largest_l), a)]
  /\ built = <<>>
  /\ NoDebug /\ NoParser
  /\ InitObs

\* The two inner loops, over index_k2 and index_k3, move from triangle to
\* triangle.  The equation code reads the product arrays at the multipoles
\* (l,m) of the hierarchy.
NextRot ==
  \/ \E k2 \in 0..KMax, k3 \in 0..KMax : SetTriangle(index_k1, k2, k3)
  \/ perturb2_geometrical_corner
  \/ \E l \in LRange, m \in MRange : Readrot_1(l, m)
  \/ \E l \in LRange, m \in MRange : Readrot_2(l, m)
  \/ \E array \in ArrayNames, l \in LRange, m \in MRange :
       ValidIndex("I", 0, l, m) /\ ReadProduct(array, l, m)
  \/ Continue

SpecRot == InitRot /\ [][NextRot]_vars

\* ------------------------------------------- SpecDebug: the debug selector
InitDebug ==
  /\ has_polarization2 = TRUE
  /\ l_max_g = LMaxBound /\ l_max_pol_g = LMaxBound /\ l_max_ur = LMaxBound
  /\ NoBuffers /\ NoTriangle /\ NoCaches
  /\ \E t \in Triangles :
       index_k1_debug = t[1] /\ index_k2_debug = t[2] /\ index_k3_debug = t[3]
  /\ out = 0
  /\ NoParser
  /\ InitObs

NextDebug ==
  \/ \E t \in Triangles : SetTriangle(t[1], t[2], t[3])
  \/ printf_k_debug
  \/ Continue

SpecDebug == InitDebug /\ [][NextDebug]_vars

\* ------------------------------------- SpecParser: the configuration overlay
\* The base file as parser_read_file leaves it: entries with distinct names,
\* none of them read or overwritten.
BaseFiles ==
  {fc \in UNION {[1..k -> {Entry(name, v) : name \in Names, v \in Values}] :
                   k \in 0..Cardinality(Names)} :
     \A i, j \in DOMAIN fc : fc[i].name = fc[j].name => i = j}

InitParser ==
  /\ has_polarization2 = TRUE
  /\ l_max_g = LMaxBound /\ l_max_pol_g = LMaxBound /\ l_max_ur = LMaxBound
  /\ NoBuffers /\ NoTriangle /\ NoCaches /\ NoDebug
  /\ pfc \in BaseFiles
  /\ consulted = {}
  /\ override = [name \in Names |-> -1]
  /\ found = FALSE
  /\ InitObs

NextParser ==
  \/ \E name \in Names : parser_read_int(name)
  \/ \E name \in Names, v \in Values : parser_overwrite_entry(name, v)
  \/ \E name \in Names, v \in Values : parser_cat(name, v)
  \/ Continue

SpecParser == InitParser /\ [][NextParser]_vars

\* ======================================================== the claims =====
AccessorNames == {"I", "E", "B", "N", "b", "cdm"}
DerivNames == {"dI", "dE", "dB", "dN", "db", "dcdm"}
Qs2Names == {"dI_qs2", "dE_qs2", "dB_qs2", "db_qs2", "dcdm_qs2", "dN_qs2"}
Qc2Names == {"dI_qc2", "dE_qc2", "dB_qc2", "db_qc2"}
RotNames == {"rot_1", "rot_2"}

\* The multipole is one for which the read contract prescribes the value 0.
ZeroCase(fam, l, m) ==
  \/ l < 0
  \/ abs(m) > l
  \/ l > LMaxOf(fam)
  \/ (fam \in {"E", "B"} /\ ~has_polarization2)

\* (n,l,m) subscripts the index table of the family within its bounds.
InTable(fam, n, l, m) ==
  IF fam \in Massive
  THEN n \in 0..n_max /\ l \in 0..l_max_massive /\ abs(m) <= l
  ELSE l \in 0..largest_l /\ abs(m) <= l

\* The entry of the index table for a subscript InTable admits.
TableOffset(fam, n, l, m) ==
  IF fam \in Massive
  THEN nlm_array[n][l][index_m[m]]
  ELSE lm_array[l][index_m[m]]

PtBase(fam) ==
  CASE fam = "I" -> index_pt2_monopole_g
    [] fam = "E" -> index_pt2_monopole_E
    [] fam = "B" -> index_pt2_monopole_B
    [] fam = "N" -> index_pt2_monopole_ur
    [] fam = "b" -> index_pt2_monopole_b
    [] fam = "cdm" -> index_pt2_monopole_cdm

QsBase(fam) ==
  CASE fam = "I" -> index_qs2_monopole_g
    [] fam = "E" -> index_qs2_monopole_E
    [] fam = "B" -> index_qs2_monopole_B
    [] fam = "N" -> index_qs2_monopole_ur
    [] fam = "b" -> index_qs2_monopole_b
    [] fam = "cdm" -> index_qs2_monopole_cdm

\* ------------------------------------------------------------------- C1
\* C1 (as claimed): whenever a bounded accessor I, E, B, N, b or cdm is read
\* with l < 0, |m| > l, l > l_max(family) (2 for b and cdm), or, for E and
\* B, with polarization disabled, the read returns 0.
C1_ReadIsZeroOutsideValidity ==
  (op.name \in AccessorNames /\ ZeroCase(op.name, op.l, op.m))
    => (res = 0 /\ fault = "none")

\* ------------------------------------------------------------------- C2
\* C2 (as claimed): a read through a bounded accessor never subscripts the
\* index table or the state buffer outside its bounds, and consults the
\* table only for 0 <= l <= l_max(family), |m| <= l and n in {0,1,2}.
C2_ReadsStayInBounds ==
  op.name \in AccessorNames =>
    /\ ref.kind # "undefined"
    /\ ref.kind = "entry" => ValidIndex(op.name, op.n, op.l, op.m)

\* ------------------------------------------------------------------- C3
LmIndices(lmax) ==
  {p \in (0..lmax) \X ((-lmax)..lmax) : abs(p[2]) <= p[1]}
NlmIndices ==
  {p \in (0..n_max) \X (0..l_max_massive) \X
         ((-l_max_massive)..l_max_massive) : abs(p[3]) <= p[2]}

RotTable(name, m) ==
  CASE name = "rot_1" /\ m >= 0 -> "rotation_1"
    [] name = "rot_1" /\ m < 0 -> "rotation_1_minus"
    [] name = "rot_2" /\ m >= 0 -> "rotation_2"
    [] name = "rot_2" /\ m < 0 -> "rotation_2_minus"

RotArray(tab) ==
  CASE tab = "rotation_1" -> rotation_1
    [] tab = "rotation_1_minus" -> rotation_1_minus
    [] tab = "rotation_2" -> rotation_2
    [] tab = "rotation_2_minus" -> rotation_2_minus

\* C4: rot_1(l,m) and rot_2(l,m) return 0 when l < 0 or |m| > l; otherwise
\* they return, for m >= 0, the entry (l,m) of the leg's table and, for
\* m < 0, the entry (l,|m|) of the leg's minus table.  The table is never
\* subscripted with a negative m or with |m| > l: the only subscript that can
\* leave the table is an l beyond the largest l it was built for.
C4_RotationContract ==
  op.name \in RotNames =>
    IF op.l < 0 \/ abs(op.m) > op.l
    THEN ref.kind = "zero" /\ res = 0 /\ fault = "none"
    ELSE IF op.l <= largest_l_quad
         THEN /\ ref.kind = "entry"
              /\ ref.tab = RotTable(op.name, op.m)
              /\ ref.slot = lm_array_quad[op.l][abs(op.m)]
              /\ res = RotArray(ref.tab)[ref.slot]
              /\ fault = "none"
         ELSE ref.kind = "undefined" /\ ref.tab = RotTable(op.name, op.m)

\* rot_1 was read with a negative m after the tables were built and returned
\* the entry of the minus table.
C4_Witness ==
  /\ op.name = "rot_1" /\ op.m < 0 /\ built # <<>>
  /\ ref.kind = "entry" /\ ref.tab = "rotation_1_minus"
  /\ res = rotation_1_minus[lm_array_quad[op.l][-op.m]]

\* ------------------------------------------------------------------- C5
QuadBuffer(name) ==
  IF name \in Qs2Names THEN pvec_quadsources ELSE pvec_quadcollision
QuadBufferName(name) ==
  IF name \in Qs2Names THEN "pvec_quadsources" ELSE "pvec_quadcollision"

\* C5 (as claimed): a read of a quadratic buffer returns 0 when l < 0,
\* |m| > l, l > l_max(family) or (E, B) polarization is disabled, and the
\* entry at base(family) + lookup(l,m) otherwise.
C5_QuadReadObeysReadContract ==
  op.name \in (Qs2Names \cup Qc2Names) =>
    IF ZeroCase(Family(op.name), op.l, op.m)
    THEN res = 0 /\ fault = "none"
    ELSE /\ ref.kind = "entry"
         /\ res = QuadBuffer(op.name)[ref.slot]

\* C5 (amended): a read of a quadratic buffer is never replaced by 0.  For
\* every subscript inside the index table it returns the entry at
\* index_qs2_monopole(family) + lookup, whatever l_max(family) and the
\* polarization flag are; for any other subscript the table is read outside
\* its bounds and the result is undefined.
C5_QuadReadIsUnchecked ==
  op.name \in (Qs2Names \cup Qc2Names) =>
    LET fam == Family(op.name) IN
      IF InTable(fam, op.n, op.l, op.m)
      THEN /\ ref.kind = "entry"
           /\ ref.tab = QuadBufferName(op.name)
           /\ ref.slot = QsBase(fam) + TableOffset(fam, op.n, op.l, op.m)
           /\ res = QuadBuffer(op.name)[ref.slot]
           /\ fault = "none"
      ELSE ref.kind = "undefined"

\* dE_qs2 was read with polarization disabled and returned a non-zero entry.
C5_Witness ==
  /\ op.name = "dE_qs2" /\ ~has_polarization2
  /\ ref.kind = "entry" /\ res # 0
  /\ res = pvec_quadsources[ref.slot]

\* ------------------------------------------------------------------- C6
CacheRead == op.name \in (RotNames \cup ArrayNames)

\* The coefficient the last read addresses, as built for triangle t.
CoeffFor(t) ==
  IF op.name \in RotNames
  THEN RotationCoeff(IF op.name = "rot_1" THEN 1 ELSE 2,
                     IF op.m < 0 THEN 1 ELSE 0,
                     lm_array_quad[op.l][abs(op.m)], t)
  ELSE ProductCoeff(ArrayIndex(op.name), lm_array[op.l][index_m[op.m]], t)

\* C6 (as claimed): a read of the rotation or product cache made after the
\* triangle changed and before the caches were rebuilt is detected and
\* aborts the run.
C6_StaleReadAborts ==
  (CacheRead /\ built # Triangle) => fault # "none"

\* C6 (amended): no read of the rotation or product cache is checked against
\* the active triangle.  A read returns what the last rebuild stored: the
\* coefficient of the triangle the caches were last built for, which is the
\* active one only if they were rebuilt after it changed; a stale read
\* returns the coefficient of that earlier triangle and nothing aborts.
C6_ReadReturnsLastBuilt ==
  (CacheRead /\ ref.kind = "entry") =>
    /\ fault = "none"
    /\ built # <<>> => res = CoeffFor(built)

\* A product array was read while built for a triangle other than the
\* active one: the read went through and returned that triangle's
\* coefficient, which is not the active triangle's.
C6_Witness ==
  /\ op.name \in ArrayNames /\ ref.kind = "entry" /\ fault = "none"
  /\ built # <<>> /\ built # Triangle
  /\ res = CoeffFor(built) /\ res # CoeffFor(Triangle)

\* ------------------------------------------------------------------- C7
DebugMatch ==
  /\ index_k1 = index_k1_debug
  /\ index_k2 = index_k2_debug
  /\ index_k3 = index_k3_debug

\* C7: a call of printf_k_debug writes one diagnostic record if and only if
\* the three active indices equal the three configured ones, writes nothing
\* otherwise, and in both cases leaves the workspace as it was.
C7_DebugSelector ==
  [][(op.name = "none" /\ op'.name = "printf_k_debug") =>
       /\ DebugMatch => out' = out + 1
       /\ ~DebugMatch => out' = out
       /\ UNCHANGED <<cfgVars, bufVars, kVars, cacheVars, parserVars>>
       /\ UNCHANGED <<index_k1_debug, index_k2_debug, index_k3_debug>>]_vars

\* A call on a triangle other than (0,0,0) wrote a record, after an earlier
\* one had been written.
C7_Witness ==
  /\ op.name = "printf_k_debug" /\ res = 1 /\ out = 2
  /\ DebugMatch /\ Triangle # <<0, 0, 0>>

\* ------------------------------------------------------------------- C8
\* C8 (as claimed): an assignment through a direct lookup with an invalid
\* index (l < 0, l > l_max, |m| > l, n outside {0,1,2}) aborts the run and
\* uses no offset.
C8_InvalidLookupAborts ==
  (op.name \in DerivNames
     /\ ~ValidIndex(Family(op.name), op.n, op.l, op.m)) => fault # "none"

\* C8 (amended): a direct lookup is not checked and raises no error.  For
\* every subscript inside the index table, an l above l_max(family)
\* included, the offset is returned and the slot
\* index_pt2_monopole(family) + lookup is assigned; for any other subscript
\* the table is read outside its bounds, which is undefined behaviour.
C8_DirectLookupIsUnchecked ==
  op.name \in DerivNames =>
    LET fam == Family(op.name) IN
      IF InTable(fam, op.n, op.l, op.m)
      THEN /\ ref.kind = "entry"
           /\ ref.tab = "dy"
           /\ ref.slot = PtBase(fam) + TableOffset(fam, op.n, op.l, op.m)
           /\ dy[ref.slot] = op.v
           /\ fault = "none"
      ELSE ref.kind = "undefined"

\* dI was assigned at an l above l_max_g: the offset was used, the slot of
\* another family was overwritten and the run went on.
C8_Witness ==
  /\ op.name = "dI" /\ op.l > l_max_g
  /\ ref.kind = "entry" /\ ref.slot >= index_pt2_monopole_E
  /\ dy[ref.slot] = op.v /\ fault = "none"

\* ------------------------------------------------------------------- C9
EntryOf(name) == pfc[Find(pfc, name)]

\* C9: an entry overlaid by an override of the same name holds the override
\* value and is flagged overwritten, whether or not it had been read; a typed
\* lookup of it is found and returns that value; an entry is flagged read
\* exactly if a lookup consulted it, so entries never consulted stay unread.
C9_Overlay ==
  /\ \A i, j \in DOMAIN pfc : pfc[i].name = pfc[j].name => i = j
  /\ \A i \in DOMAIN pfc :
       /\ pfc[i].read <=> pfc[i].name \in consulted
       /\ pfc[i].overwritten <=> override[pfc[i].name] # -1
       /\ pfc[i].overwritten => pfc[i].value = override[pfc[i].name]
  /\ \A name \in Names : override[name] # -1 => Find(pfc, name) # 0
  /\ op.name = "parser_read_int" =>
       /\ found <=> Find(pfc, op.key) # 0
       /\ found => res = EntryOf(op.key).value
       /\ (found /\ override[op.key] # -1) => res = override[op.key]
  /\ op.name = "parser_overwrite_entry" =>
       /\ found <=> Find(pfc, op.key) # 0
       /\ found => /\ EntryOf(op.key).value = op.v
                   /\ EntryOf(op.key).overwritten

\* A lookup returned the override value of an entry that was overwritten
\* after having been read, while another entry was never consulted.
C9_Witness ==
  /\ op.name = "parser_read_int" /\ found
  /\ override[op.key] # -1 /\ res = override[op.key]
  /\ Len(pfc) = Cardinality(Names)
  /\ \E i \in DOMAIN pfc : ~pfc[i].read /\ ~pfc[i].overwritten
  /\ \E i \in DOMAIN pfc : pfc[i].overwritten /\ ~pfc[i].read

====
